---- MODULE Spec2Model ----
(***************************************************************************)
(* Model of the ttgo-fsk-tx firmware: the cooperative loop() of            *)
(* src/main.cpp, the command interpreter console_loop() of console.cpp     *)
(* (the revision that uses main.cpp's variable names) and the interrupt    *)
(* service routine on_interrupt_fifo_has_space().                          *)
(*                                                                         *)
(* Bytes are ASCII codes.  The main thread is a program counter `pc` over  *)
(* the statements of setup(), loop() and console_loop(); the interrupt     *)
(* routine is a separate action that may run between any two of them.      *)
(***************************************************************************)
EXTENDS Integers, Sequences, FiniteSets, TLC

\* ------------------------------------------------------------------------
\* Bounds of the model
\* ------------------------------------------------------------------------

\* Size of tx_data_buffer and the clamp of the `m` count (2048 in the
\* firmware), scaled down so that a full payload can be enumerated.
Capacity == 2

\* Longest argument substring of an `m` line the environment sends.
MaxArgLen == 2

\* Largest number of bytes one fifoAdd call takes off the remaining length.
MaxChunk == 2

\* ------------------------------------------------------------------------
\* Characters
\* ------------------------------------------------------------------------

NUL == 0
NL == 10
SP == 32
MINUS == 45
DOT == 46
CH_0 == 48
CH_1 == 49
CH_2 == 50
CH_f == 102
CH_m == 109
CH_p == 112
CH_z == 122

RADIOLIB_ERR_NONE == 0
ERR_CHIP_NOT_FOUND == 0 - 2
ERR_PACKET_TOO_LONG == 0 - 4
ERR_INVALID_FREQUENCY == 0 - 12
ERR_INVALID_OUTPUT_POWER == 0 - 13

\* TX_FREQ_DEFAULT 916.0, in tenths of a MHz (see toFloat).
TX_FREQ_DEFAULT == 9160
TX_POWER_DEFAULT == 2

\* ------------------------------------------------------------------------
\* Inputs of the environment
\* ------------------------------------------------------------------------

RECURSIVE SeqsUpTo(_, _)
\* All sequences over S of length 0..n.
SeqsUpTo(S, n) ==
  IF n = 0 THEN {<<>>}
  ELSE LET shorter == SeqsUpTo(S, n - 1)
       IN shorter \cup {Append(s, c) : s \in {t \in shorter : Len(t) = n - 1}, c \in S}

\* Characters of the argument of an `m` line.
ArgChars == {MINUS, CH_1, CH_2}

MArgs == SeqsUpTo(ArgChars, MaxArgLen)
\* The arguments of the `f` and `p` lines the environment sends: 1 and .1
CfgArgs == {<<CH_1>>, <<DOT, CH_1>>}

\* The command lines the environment sends (without the terminating NL).
Lines ==
  {<<>>, <<CH_m>>, <<CH_m, CH_1, CH_1>>, <<CH_z, SP, CH_1>>, <<NUL, SP, CH_1>>,
   <<CH_m, SP, SP, CH_1>>, <<CH_m, SP, CH_0>>}
    \cup {<<CH_m, SP>> \o a : a \in MArgs}
    \cup {<<CH_f, SP>> \o a : a \in CfgArgs}
    \cup {<<CH_p, SP>> \o a : a \in CfgArgs}

\* The payload bytes the environment sends: binary data, NUL and NL included.
PayloadBytes == {NUL, NL}

\* Status codes the radio driver returns.
InitResults == {RADIOLIB_ERR_NONE, ERR_CHIP_NOT_FOUND}
StartResults == {RADIOLIB_ERR_NONE, ERR_CHIP_NOT_FOUND, ERR_PACKET_TOO_LONG}
FreqResults == {RADIOLIB_ERR_NONE, ERR_INVALID_FREQUENCY}
PowerResults == {RADIOLIB_ERR_NONE, ERR_INVALID_OUTPUT_POWER}

\* ------------------------------------------------------------------------
\* Arduino String helpers
\* ------------------------------------------------------------------------

IsDigit(c) == c >= 48 /\ c <= 57
IsSpace(c) == c = SP \/ (c >= 9 /\ c <= 13)

\* await_read_line(): the bytes of the stream before the first NL.
RECURSIVE await_read_line(_)
await_read_line(stream) ==
  IF stream = <<>> \/ Head(stream) = NL THEN <<>>
  ELSE <<Head(stream)>> \o await_read_line(Tail(stream))

\* line.substring(2)
Substring2(l) == IF Len(l) <= 2 THEN <<>> ELSE SubSeq(l, 3, Len(l))

RECURSIVE SkipSpace(_)
SkipSpace(s) == IF s # <<>> /\ IsSpace(Head(s)) THEN SkipSpace(Tail(s)) ELSE s

RECURSIVE DigitsValue(_, _)
\* Value of the leading decimal digits of s, continuing from acc.
DigitsValue(s, acc) ==
  IF s # <<>> /\ IsDigit(Head(s))
  THEN DigitsValue(Tail(s), acc * 10 + (Head(s) - 48))
  ELSE acc

RECURSIVE DropDigits(_)
DropDigits(s) == IF s # <<>> /\ IsDigit(Head(s)) THEN DropDigits(Tail(s)) ELSE s

\* String::toInt(): atol - leading white space, an optional sign, decimal
\* digits up to the first other character; 0 when there is no digit.
toInt(s) ==
  LET t == SkipSpace(s)
      neg == t # <<>> /\ Head(t) = MINUS
      u == IF t # <<>> /\ (Head(t) = MINUS \/ Head(t) = 43) THEN Tail(t) ELSE t
      v == DigitsValue(u, 0)
  IN IF neg THEN 0 - v ELSE v

\* String::toFloat(): atof - as toInt, with an optional fraction.  The value
\* is kept in tenths (one fractional digit is all the sent lines can carry).
toFloat(s) ==
  LET t == SkipSpace(s)
      neg == t # <<>> /\ Head(t) = MINUS
      u == IF t # <<>> /\ (Head(t) = MINUS \/ Head(t) = 43) THEN Tail(t) ELSE t
      ip == DigitsValue(u, 0)
      r == DropDigits(u)
      fp == IF Len(r) >= 2 /\ Head(r) = DOT /\ IsDigit(r[2]) THEN r[2] - 48 ELSE 0
      v == ip * 10 + fp
  IN IF neg THEN 0 - v ELSE v

\* ------------------------------------------------------------------------
\* State
\* ------------------------------------------------------------------------

VARIABLES
  pc,                               \* statement the main thread is at
  isrAttached,                      \* setFifoEmptyAction has been called
  console_loop_enable,
  fifo_empty,
  transmission_processing_complete,
  tx_data_buffer,
  current_tx_total_length,
  current_tx_remaining_length,
  radio_start_transmit_status,
  current_tx_frequency,
  current_tx_power,
  line,                             \* console_loop's local `line`
  bytes_to_read,                    \* console_loop's local `bytes_to_read`
  display,                          \* what display_status() drew last
  log,                              \* observable events since the last await_read_line
  inFlight,                         \* history: an accepted transfer has no result yet
  startResult,                      \* history: what startTransmit returned last
  requested                         \* history: the count of the `m` line before the clamp

vars ==
  <<pc, isrAttached, console_loop_enable, fifo_empty,
    transmission_processing_complete, tx_data_buffer, current_tx_total_length,
    current_tx_remaining_length, radio_start_transmit_status,
    current_tx_frequency, current_tx_power, line, bytes_to_read, display, log,
    inFlight, startResult, requested>>

\* Everything the interrupt routine must leave alone.
mainVars ==
  <<pc, isrAttached, console_loop_enable,
    transmission_processing_complete, tx_data_buffer, current_tx_total_length,
    current_tx_remaining_length, radio_start_transmit_status,
    current_tx_frequency, current_tx_power, line, bytes_to_read, display, log,
    inFlight, startResult, requested>>

\* The transfer buffer, its counters and the engine's flags.
engineVars ==
  <<console_loop_enable, fifo_empty, transmission_processing_complete,
    tx_data_buffer, current_tx_total_length, current_tx_remaining_length,
    radio_start_transmit_status, inFlight, startResult>>

configVars == <<current_tx_frequency, current_tx_power, display>>

\* One observable event: a line written to Serial (pfx CONSOLE, TX or INIT),
\* a call of a radio driver capability (pfx RADIO), a payload byte taken from
\* the stream (pfx RX), a display refresh (pfx DISPLAY) or the start of a
\* loop() iteration (pfx LOOP).
Ev(p, c, m, a) == [pfx |-> p, code |-> c, msg |-> m, arg |-> a]

\* display_status(): draws frequency, power and Standby / Transmitting...
display_status(freq, power, enable) ==
  [frequency |-> freq, power |-> power, busy |-> ~enable]

EvDisplay(enable) == Ev("DISPLAY", 0, IF enable THEN "Standby" ELSE "Transmitting...", 0)

Init ==
  /\ pc = "setup"
  /\ isrAttached = FALSE
  /\ console_loop_enable = TRUE
  /\ fifo_empty = FALSE
  /\ transmission_processing_complete = FALSE
  /\ tx_data_buffer = [i \in 1..Capacity |-> 0]
  /\ current_tx_total_length = 0
  /\ current_tx_remaining_length = 0
  /\ radio_start_transmit_status = RADIOLIB_ERR_NONE
  /\ current_tx_frequency = TX_FREQ_DEFAULT
  /\ current_tx_power = TX_POWER_DEFAULT
  /\ line = <<>>
  /\ bytes_to_read = 0
  /\ display = [frequency |-> 0, power |-> 0, busy |-> FALSE]
  /\ log = <<>>
  /\ inFlight = FALSE
  /\ startResult = RADIOLIB_ERR_NONE
  /\ requested = 0

\* ------------------------------------------------------------------------
\* The interrupt service routine
\* ------------------------------------------------------------------------

\* An interrupt routine that also marks the transfer complete.
on_interrupt_fifo_has_space_completes ==
  /\ isrAttached
  /\ fifo_empty' = TRUE
  /\ transmission_processing_complete' = TRUE
  /\ UNCHANGED <<pc, isrAttached, console_loop_enable, tx_data_buffer,
                 current_tx_total_length, current_tx_remaining_length,
                 radio_start_transmit_status, current_tx_frequency,
                 current_tx_power, line, bytes_to_read, requested, display, log,
                 inFlight, startResult>>

on_interrupt_fifo_has_space ==
  /\ isrAttached
  /\ fifo_empty' = TRUE
  /\ UNCHANGED mainVars

\* ------------------------------------------------------------------------
\* setup() and panic()
\* ------------------------------------------------------------------------

\* setup() when beginFSK fails: the message, then panic().
setup_radio_failed ==
  /\ pc = "setup"
  /\ \E st \in InitResults \ {RADIOLIB_ERR_NONE} :
       log' = log \o <<Ev("INIT", 0, "Display initialized", 0),
                       Ev("INIT", 1, "Radio initialization failed with code", st)>>
  /\ display' = display_status(current_tx_frequency, current_tx_power, console_loop_enable)
  /\ pc' = "panic"
  /\ UNCHANGED <<isrAttached, engineVars, current_tx_frequency, current_tx_power,
                 line, bytes_to_read, requested>>

\* setup() when beginFSK succeeds and fixedPacketLengthMode fails.
setup_packet_mode_failed ==
  /\ pc = "setup"
  /\ \E st \in InitResults \ {RADIOLIB_ERR_NONE} :
       log' = log \o <<Ev("INIT", 0, "Display initialized", 0),
                       Ev("INIT", 1, "Failed to set variable packet length mode, code", st)>>
  /\ display' = display_status(current_tx_frequency, current_tx_power, console_loop_enable)
  /\ isrAttached' = TRUE
  /\ pc' = "panic"
  /\ UNCHANGED <<engineVars, current_tx_frequency, current_tx_power, line, bytes_to_read, requested>>

\* setup() when the radio initializes.
setup_ok ==
  /\ pc = "setup"
  /\ log' = log \o <<Ev("INIT", 0, "Display initialized", 0),
                     Ev("INIT", 0, "Radio initialized successfully", 0)>>
  /\ display' = display_status(current_tx_frequency, current_tx_power, console_loop_enable)
  /\ isrAttached' = TRUE
  /\ pc' = "loop"
  /\ UNCHANGED <<engineVars, current_tx_frequency, current_tx_power, line, bytes_to_read, requested>>

\* A panic() that returns after its message, so that loop() runs.
panic_returns ==
  /\ pc = "panic"
  /\ log' = Append(log, Ev("INIT", 1, "System halted", 0))
  /\ pc' = "loop"
  /\ UNCHANGED <<isrAttached, engineVars, configVars, line, bytes_to_read, requested>>

\* panic(): the message, then while (true) delay().
panic ==
  /\ pc = "panic"
  /\ log' = Append(log, Ev("INIT", 1, "System halted", 0))
  /\ pc' = "halted"
  /\ UNCHANGED <<isrAttached, engineVars, configVars, line, bytes_to_read, requested>>

\* ------------------------------------------------------------------------
\* The radio driver (RadioLib), at the boundary main.cpp uses it
\* ------------------------------------------------------------------------

\* A fifoAdd that never reports the packet loaded.
fifoAdd_never_complete(remLen, chunk) == <<remLen - chunk, FALSE>>

\* A fifoAdd that reports the packet loaded while one byte remains.
fifoAdd_complete_early(remLen, chunk) == <<remLen - chunk, remLen - chunk <= 1>>

\* radio.fifoAdd(data, totalLen, &remLen): takes the next chunk off remLen and
\* returns true when the whole packet has been loaded.  The result is
\* <<new remaining length, complete>>.
fifoAdd(remLen, chunk) == <<remLen - chunk, remLen - chunk <= 0>>

\* ------------------------------------------------------------------------
\* loop()
\* ------------------------------------------------------------------------

\* A new iteration of loop() is marked once in the log however long it spins.
MarkLoop(l) ==
  IF l # <<>> /\ l[Len(l)].pfx = "LOOP" THEN l ELSE Append(l, Ev("LOOP", 0, "loop", 0))

\* The test on the flag alone.
RefillDue_flag_only(flag, remaining) == flag

\* The test with `>= 0` in the place of `> 0`.
RefillDue_nonnegative(flag, remaining) == flag /\ remaining >= 0

\* `fifo_empty && current_tx_remaining_length > 0`
RefillDue(flag, remaining) == flag /\ remaining > 0

\* loop(), the test `if (fifo_empty && current_tx_remaining_length > 0)`.
loop_test_refill ==
  /\ pc = "loop"
  /\ pc' = IF RefillDue(fifo_empty, current_tx_remaining_length)
           THEN "clear_flag" ELSE "check_complete"
  /\ log' = MarkLoop(log)
  /\ UNCHANGED <<isrAttached, engineVars, configVars, line, bytes_to_read, requested>>

\* loop(), `fifo_empty = false`.
loop_clear_flag ==
  /\ pc = "clear_flag"
  /\ fifo_empty' = FALSE
  /\ pc' = "fifo_add"
  /\ UNCHANGED <<isrAttached, console_loop_enable, transmission_processing_complete,
                 tx_data_buffer, current_tx_total_length, current_tx_remaining_length,
                 radio_start_transmit_status, inFlight, startResult, configVars,
                 line, bytes_to_read, requested, log>>

\* The refill followed at once by the console test, the completion block
\* being left to the next iteration.
loop_fifo_add_then_console ==
  /\ pc = "fifo_add"
  /\ \E chunk \in 1..MaxChunk :
       LET r == fifoAdd(current_tx_remaining_length, chunk)
       IN /\ current_tx_remaining_length' = r[1]
          /\ transmission_processing_complete' = r[2]
          /\ log' = Append(log, Ev("RADIO", IF r[2] THEN 1 ELSE 0, "fifoAdd",
                                   current_tx_remaining_length))
  /\ pc' = "check_console"
  /\ UNCHANGED <<isrAttached, console_loop_enable, fifo_empty, tx_data_buffer,
                 current_tx_total_length, radio_start_transmit_status, inFlight,
                 startResult, configVars, line, bytes_to_read, requested>>

\* The refill with the flag cleared after the call instead of before it.
loop_fifo_add_clears_after ==
  /\ pc = "fifo_add"
  /\ \E chunk \in 1..MaxChunk :
       LET r == fifoAdd(current_tx_remaining_length, chunk)
       IN /\ current_tx_remaining_length' = r[1]
          /\ transmission_processing_complete' = r[2]
          /\ log' = Append(log, Ev("RADIO", IF r[2] THEN 1 ELSE 0, "fifoAdd",
                                   current_tx_remaining_length))
  /\ fifo_empty' = FALSE
  /\ pc' = "check_complete"
  /\ UNCHANGED <<isrAttached, console_loop_enable, tx_data_buffer,
                 current_tx_total_length, radio_start_transmit_status, inFlight,
                 startResult, configVars, line, bytes_to_read, requested>>

\* loop(), `transmission_processing_complete = radio.fifoAdd(...)`.
loop_fifo_add ==
  /\ pc = "fifo_add"
  /\ \E chunk \in 1..MaxChunk :
       LET r == fifoAdd(current_tx_remaining_length, chunk)
       IN /\ current_tx_remaining_length' = r[1]
          /\ transmission_processing_complete' = r[2]
          /\ log' = Append(log, Ev("RADIO", IF r[2] THEN 1 ELSE 0, "fifoAdd",
                                   current_tx_remaining_length))
  /\ pc' = "check_complete"
  /\ UNCHANGED <<isrAttached, console_loop_enable, fifo_empty, tx_data_buffer,
                 current_tx_total_length, radio_start_transmit_status, inFlight,
                 startResult, configVars, line, bytes_to_read, requested>>

\* The completion message with the test of the status inverted.
TxResponse_inverted(status) ==
  IF status # RADIOLIB_ERR_NONE
  THEN Ev("TX", 0, "Transmission finished successfully!", 0)
  ELSE Ev("TX", 1, "Transmission failed to start, error code:", status)

\* The line loop() prints for a finished transfer.
TxResponse(status) ==
  IF status = RADIOLIB_ERR_NONE
  THEN Ev("TX", 0, "Transmission finished successfully!", 0)
  ELSE Ev("TX", 1, "Transmission failed to start, error code:", status)

\* The completion block without `transmission_processing_complete = false`.
loop_complete_flag_kept ==
  /\ pc = "check_complete"
  /\ transmission_processing_complete
  /\ console_loop_enable' = TRUE
  /\ display' = display_status(current_tx_frequency, current_tx_power, TRUE)
  /\ log' = log \o <<TxResponse(radio_start_transmit_status),
                     Ev("RADIO", 0, "standby", 0),
                     Ev("INIT", 0, "Radio set to standby mode.", 0),
                     Ev("ENABLE", 0, "console_loop_enable = true", 0),
                     EvDisplay(TRUE)>>
  /\ inFlight' = FALSE
  /\ pc' = "check_console"
  /\ UNCHANGED <<isrAttached, fifo_empty, transmission_processing_complete,
                 tx_data_buffer, current_tx_total_length,
                 current_tx_remaining_length, radio_start_transmit_status, startResult,
                 current_tx_frequency, current_tx_power, line, bytes_to_read, requested>>

\* The completion block with the reset `current_tx_remaining_length =
\* current_tx_total_length` of the firmware's earlier revision.
loop_complete_resets_remaining ==
  /\ pc = "check_complete"
  /\ transmission_processing_complete
  /\ transmission_processing_complete' = FALSE
  /\ current_tx_remaining_length' = current_tx_total_length
  /\ console_loop_enable' = TRUE
  /\ display' = display_status(current_tx_frequency, current_tx_power, TRUE)
  /\ log' = log \o <<TxResponse(radio_start_transmit_status),
                     Ev("RADIO", 0, "standby", 0),
                     Ev("INIT", 0, "Radio set to standby mode.", 0),
                     Ev("ENABLE", 0, "console_loop_enable = true", 0),
                     EvDisplay(TRUE)>>
  /\ inFlight' = FALSE
  /\ pc' = "check_console"
  /\ UNCHANGED <<isrAttached, fifo_empty, tx_data_buffer, current_tx_total_length,
                 radio_start_transmit_status, startResult,
                 current_tx_frequency, current_tx_power, line, bytes_to_read, requested>>

\* The completion block with the radio put to standby before the result is
\* written.
loop_complete_standby_first ==
  /\ pc = "check_complete"
  /\ transmission_processing_complete
  /\ transmission_processing_complete' = FALSE
  /\ console_loop_enable' = TRUE
  /\ display' = display_status(current_tx_frequency, current_tx_power, TRUE)
  /\ log' = log \o <<Ev("RADIO", 0, "standby", 0),
                     Ev("INIT", 0, "Radio set to standby mode.", 0),
                     TxResponse(radio_start_transmit_status),
                     Ev("ENABLE", 0, "console_loop_enable = true", 0),
                     EvDisplay(TRUE)>>
  /\ inFlight' = FALSE
  /\ pc' = "check_console"
  /\ UNCHANGED <<isrAttached, fifo_empty, tx_data_buffer, current_tx_total_length,
                 current_tx_remaining_length, radio_start_transmit_status, startResult,
                 current_tx_frequency, current_tx_power, line, bytes_to_read, requested>>

\* loop(), the block `if (transmission_processing_complete) { ... }`.
loop_complete ==
  /\ pc = "check_complete"
  /\ transmission_processing_complete
  /\ transmission_processing_complete' = FALSE
  /\ console_loop_enable' = TRUE
  /\ display' = display_status(current_tx_frequency, current_tx_power, TRUE)
  /\ log' = log \o <<TxResponse(radio_start_transmit_status),
                     Ev("RADIO", 0, "standby", 0),
                     Ev("INIT", 0, "Radio set to standby mode.", 0),
                     Ev("ENABLE", 0, "console_loop_enable = true", 0),
                     EvDisplay(TRUE)>>
  /\ inFlight' = FALSE
  /\ pc' = "check_console"
  /\ UNCHANGED <<isrAttached, fifo_empty, tx_data_buffer, current_tx_total_length,
                 current_tx_remaining_length, radio_start_transmit_status, startResult,
                 current_tx_frequency, current_tx_power, line, bytes_to_read, requested>>

\* loop(), the same test when no transfer has just completed.
loop_not_complete ==
  /\ pc = "check_complete"
  /\ ~transmission_processing_complete
  /\ pc' = "check_console"
  /\ UNCHANGED <<isrAttached, engineVars, configVars, line, bytes_to_read, requested, log>>

\* loop(), `if (console_loop_enable)` taken: console_loop() starts and blocks
\* in await_read_line().
loop_console_enabled ==
  /\ pc = "check_console"
  /\ console_loop_enable
  /\ pc' = "await_read_line"
  /\ log' = <<>>
  /\ UNCHANGED <<isrAttached, engineVars, configVars, line, bytes_to_read, requested>>

\* loop(), `if (console_loop_enable)` not taken: loop() returns.
loop_console_disabled ==
  /\ pc = "check_console"
  /\ ~console_loop_enable
  /\ pc' = "loop"
  /\ UNCHANGED <<isrAttached, engineVars, configVars, line, bytes_to_read, requested, log>>

\* ------------------------------------------------------------------------
\* console_loop()
\* ------------------------------------------------------------------------

\* `String line = await_read_line()`: blocks until the stream has delivered a
\* whole line.
console_read_line ==
  /\ pc = "await_read_line"
  /\ \E l \in Lines :
       /\ line' = await_read_line(l \o <<NL>>)
       /\ log' = Append(log, Ev("LINE", 0, "await_read_line", Len(l) + 1))
  /\ pc' = "interpret"
  /\ UNCHANGED <<isrAttached, engineVars, configVars, bytes_to_read, requested>>

\* The test without its second half, `line[1] != ' '`.
IsMalformed_length_only(l) == Len(l) < 3

\* `line.length() < 3 || line[1] != ' '`
IsMalformed(l) == IF Len(l) < 3 THEN TRUE ELSE l[2] # SP

\* `char cmd = line[0]`
Cmd(l) == l[1]

EvUnknown == Ev("CONSOLE", 9, "Unknown command", 0)
EvInvalid == Ev("CONSOLE", 9, "Invalid parameter", 0)

\* The malformed-line branch: the message and return.
console_malformed ==
  /\ pc = "interpret"
  /\ IsMalformed(line)
  /\ log' = Append(log, EvUnknown)
  /\ line' = <<>>
  /\ pc' = "loop"
  /\ UNCHANGED <<isrAttached, engineVars, configVars, bytes_to_read, requested>>

\* case 'f' with the accepted value added to the stored frequency.
console_set_frequency_relative ==
  /\ pc = "interpret"
  /\ ~IsMalformed(line)
  /\ Cmd(line) = CH_f
  /\ LET freq == toFloat(Substring2(line))
     IN \E state \in FreqResults :
          IF state # RADIOLIB_ERR_NONE
          THEN /\ log' = Append(log, Ev("CONSOLE", 1, "Failed to set frequency", 0))
               /\ UNCHANGED configVars
          ELSE /\ current_tx_frequency' = current_tx_frequency + freq
               /\ display' = display_status(current_tx_frequency + freq, current_tx_power,
                                            console_loop_enable)
               /\ log' = log \o <<Ev("CONSOLE", 0, "Frequency set to", freq),
                                  EvDisplay(console_loop_enable)>>
               /\ UNCHANGED current_tx_power
  /\ line' = <<>>
  /\ pc' = "loop"
  /\ UNCHANGED <<isrAttached, engineVars, bytes_to_read, requested>>

\* case 'f'
console_set_frequency ==
  /\ pc = "interpret"
  /\ ~IsMalformed(line)
  /\ Cmd(line) = CH_f
  /\ LET freq == toFloat(Substring2(line))
     IN \E state \in FreqResults :
          IF state # RADIOLIB_ERR_NONE
          THEN /\ log' = Append(log, Ev("CONSOLE", 1, "Failed to set frequency", 0))
               /\ UNCHANGED configVars
          ELSE /\ current_tx_frequency' = freq
               /\ display' = display_status(freq, current_tx_power, console_loop_enable)
               /\ log' = log \o <<Ev("CONSOLE", 0, "Frequency set to", freq),
                                  EvDisplay(console_loop_enable)>>
               /\ UNCHANGED current_tx_power
  /\ line' = <<>>
  /\ pc' = "loop"
  /\ UNCHANGED <<isrAttached, engineVars, bytes_to_read, requested>>

\* case 'p' with the power stored and the display refreshed before the
\* driver's answer is tested.
console_set_power_unchecked ==
  /\ pc = "interpret"
  /\ ~IsMalformed(line)
  /\ Cmd(line) = CH_p
  /\ LET power == toInt(Substring2(line))
     IN \E state \in PowerResults :
          /\ current_tx_power' = power
          /\ display' = display_status(current_tx_frequency, power, console_loop_enable)
          /\ UNCHANGED current_tx_frequency
          /\ IF state # RADIOLIB_ERR_NONE
             THEN log' = log \o <<EvDisplay(console_loop_enable),
                                  Ev("CONSOLE", 1, "Failed to set transmit power", 0)>>
             ELSE log' = log \o <<Ev("CONSOLE", 0, "Transmit power set to", power),
                                  EvDisplay(console_loop_enable)>>
  /\ line' = <<>>
  /\ pc' = "loop"
  /\ UNCHANGED <<isrAttached, engineVars, bytes_to_read, requested>>

\* case 'p'
console_set_power ==
  /\ pc = "interpret"
  /\ ~IsMalformed(line)
  /\ Cmd(line) = CH_p
  /\ LET power == toInt(Substring2(line))
     IN \E state \in PowerResults :
          IF state # RADIOLIB_ERR_NONE
          THEN /\ log' = Append(log, Ev("CONSOLE", 1, "Failed to set transmit power", 0))
               /\ UNCHANGED configVars
          ELSE /\ current_tx_power' = power
               /\ display' = display_status(current_tx_frequency, power, console_loop_enable)
               /\ log' = log \o <<Ev("CONSOLE", 0, "Transmit power set to", power),
                                  EvDisplay(console_loop_enable)>>
               /\ UNCHANGED current_tx_frequency
  /\ line' = <<>>
  /\ pc' = "loop"
  /\ UNCHANGED <<isrAttached, engineVars, bytes_to_read, requested>>

\* The count test written as `bytes_to_read < 0`.
IsInvalidCount_negative_only(n) == n < 0

\* `bytes_to_read < 1`
IsInvalidCount(n) == n < 1

\* case 'm' with a count below 1 leaving console_loop() without a message.
console_transfer_invalid_silent ==
  /\ pc = "interpret"
  /\ ~IsMalformed(line)
  /\ Cmd(line) = CH_m
  /\ IsInvalidCount(toInt(Substring2(line)))
  /\ line' = <<>>
  /\ pc' = "loop"
  /\ UNCHANGED <<isrAttached, engineVars, configVars, bytes_to_read, requested, log>>

\* case 'm', `if (bytes_to_read < 1)`: the message and break.
console_transfer_invalid ==
  /\ pc = "interpret"
  /\ ~IsMalformed(line)
  /\ Cmd(line) = CH_m
  /\ IsInvalidCount(toInt(Substring2(line)))
  /\ log' = Append(log, EvInvalid)
  /\ line' = <<>>
  /\ pc' = "loop"
  /\ UNCHANGED <<isrAttached, engineVars, configVars, bytes_to_read, requested>>

\* The count left as parsed, without the clamp.
ClampCount_none(n) == n

\* The clamp written one above the buffer size.
ClampCount_one_above(n) == IF n > Capacity + 1 THEN Capacity + 1 ELSE n

\* `if (bytes_to_read > 2048) bytes_to_read = 2048`
ClampCount(n) == IF n > Capacity THEN Capacity ELSE n

\* case 'm' with a count of at least 1: the clamp, the Waiting message and
\* `current_tx_total_length = 0`; the thread then blocks in the read loop.
console_transfer_begin ==
  /\ pc = "interpret"
  /\ ~IsMalformed(line)
  /\ Cmd(line) = CH_m
  /\ ~IsInvalidCount(toInt(Substring2(line)))
  /\ requested' = toInt(Substring2(line))
  /\ bytes_to_read' = ClampCount(toInt(Substring2(line)))
  /\ log' = Append(log, Ev("CONSOLE", 0, "Waiting for bytes", bytes_to_read'))
  /\ current_tx_total_length' = 0
  /\ inFlight' = TRUE
  /\ line' = <<>>
  /\ pc' = "ingest"
  /\ UNCHANGED <<isrAttached, console_loop_enable, fifo_empty,
                 transmission_processing_complete, tx_data_buffer,
                 current_tx_remaining_length, radio_start_transmit_status,
                 startResult, configVars>>

\* Every byte stored at the start of the buffer.
StoreByte_at_start(buffer, length, b) == [buffer EXCEPT ![1] = b]

\* `tx_data_buffer[current_tx_total_length] = b`; sequences count from 1.
StoreByte(buffer, length, b) == [buffer EXCEPT ![length + 1] = b]

\* One turn of `while (current_tx_total_length < bytes_to_read)` with a byte
\* available: `tx_data_buffer[current_tx_total_length++] = Serial.read()`.
console_ingest_byte ==
  /\ pc = "ingest"
  /\ current_tx_total_length < bytes_to_read
  /\ \E b \in PayloadBytes :
       /\ tx_data_buffer' = StoreByte(tx_data_buffer, current_tx_total_length, b)
       /\ log' = Append(log, Ev("RX", 0, "Serial.read", b))
  /\ current_tx_total_length' = current_tx_total_length + 1
  /\ UNCHANGED <<pc, isrAttached, console_loop_enable, fifo_empty,
                 transmission_processing_complete, current_tx_remaining_length,
                 radio_start_transmit_status, inFlight, startResult, configVars,
                 line, bytes_to_read, requested>>

\* console_start_transmit without `console_loop_enable = false`.
console_start_transmit_console_left_on ==
  /\ pc = "ingest"
  /\ ~(current_tx_total_length < bytes_to_read)
  /\ fifo_empty' = TRUE
  /\ current_tx_remaining_length' = current_tx_total_length
  /\ \E st \in StartResults :
       /\ radio_start_transmit_status' = st
       /\ startResult' = st
       /\ log' = log \o <<Ev("CONSOLE", 0, "Accepted bytes", current_tx_total_length),
                          Ev("RADIO", st, "startTransmit", current_tx_total_length),
                          EvDisplay(FALSE)>>
  /\ display' = display_status(current_tx_frequency, current_tx_power, FALSE)
  /\ bytes_to_read' = 0
  /\ requested' = 0
  /\ pc' = "loop"
  /\ UNCHANGED <<isrAttached, console_loop_enable, transmission_processing_complete,
                 tx_data_buffer, current_tx_total_length, inFlight,
                 current_tx_frequency, current_tx_power, line>>

\* After the read loop: the Accepted message, the flags, the remaining
\* length, radio.startTransmit() and display_status(); console_loop returns.
console_start_transmit ==
  /\ pc = "ingest"
  /\ ~(current_tx_total_length < bytes_to_read)
  /\ fifo_empty' = TRUE
  /\ console_loop_enable' = FALSE
  /\ current_tx_remaining_length' = current_tx_total_length
  /\ \E st \in StartResults :
       /\ radio_start_transmit_status' = st
       /\ startResult' = st
       /\ log' = log \o <<Ev("CONSOLE", 0, "Accepted bytes", current_tx_total_length),
                          Ev("RADIO", st, "startTransmit", current_tx_total_length),
                          EvDisplay(FALSE)>>
  /\ display' = display_status(current_tx_frequency, current_tx_power, FALSE)
  /\ bytes_to_read' = 0
  /\ requested' = 0
  /\ pc' = "loop"
  /\ UNCHANGED <<isrAttached, transmission_processing_complete, tx_data_buffer,
                 current_tx_total_length, inFlight, current_tx_frequency,
                 current_tx_power, line>>

\* default: the message.
console_unknown ==
  /\ pc = "interpret"
  /\ ~IsMalformed(line)
  /\ Cmd(line) \notin {CH_f, CH_p, CH_m}
  /\ log' = Append(log, EvUnknown)
  /\ line' = <<>>
  /\ pc' = "loop"
  /\ UNCHANGED <<isrAttached, engineVars, configVars, bytes_to_read, requested>>

\* ------------------------------------------------------------------------
\* Specification
\* ------------------------------------------------------------------------

Next ==
  \/ on_interrupt_fifo_has_space
  \/ setup_radio_failed
  \/ setup_packet_mode_failed
  \/ setup_ok
  \/ panic
  \/ loop_test_refill
  \/ loop_clear_flag
  \/ loop_fifo_add
  \/ loop_complete
  \/ loop_not_complete
  \/ loop_console_enabled
  \/ loop_console_disabled
  \/ console_read_line
  \/ console_malformed
  \/ console_set_frequency
  \/ console_set_power
  \/ console_transfer_invalid
  \/ console_transfer_begin
  \/ console_ingest_byte
  \/ console_start_transmit
  \/ console_unknown

Spec == Init /\ [][Next]_vars

\* The fairness the firmware's scheduling gives: the main thread keeps
\* running (loop() is called again and again, and a blocked payload read
\* gets its bytes), and the interrupt fires while the flag is clear.  A
\* command line may never arrive.
MainThread ==
  \/ loop_test_refill
  \/ loop_clear_flag
  \/ loop_fifo_add
  \/ loop_complete
  \/ loop_not_complete
  \/ loop_console_enabled
  \/ loop_console_disabled
  \/ console_ingest_byte
  \/ console_start_transmit

LiveSpec ==
  /\ Spec
  /\ WF_vars(MainThread)
  /\ WF_vars(on_interrupt_fifo_has_space)

\* ------------------------------------------------------------------------
\* Helpers of the properties
\* ------------------------------------------------------------------------

LastEv(l) == l[Len(l)]

\* The step appends exactly one event with this prefix to the log.
Appends(prefixes) ==
  /\ Len(log') = Len(log) + 1
  /\ SubSeq(log', 1, Len(log)) = log
  /\ LastEv(log').pfx \in prefixes

\* The main thread takes a step of the command interpreter on `line`.
Interprets == pc = "interpret" /\ pc' # pc

\* `line` is an `m` command and its parsed count.
IsTransferLine(l) == IF IsMalformed(l) THEN FALSE ELSE Cmd(l) = CH_m
CountOf(l) == toInt(Substring2(l))

\* The events of the log with one of these prefixes, in order.
RECURSIVE Only(_, _)
Only(l, prefixes) ==
  IF l = <<>> THEN <<>>
  ELSE (IF Head(l).pfx \in prefixes THEN <<Head(l)>> ELSE <<>>) \o Only(Tail(l), prefixes)

\* The payload bytes taken from the stream, in arrival order.
Payload(l) == [i \in 1..Len(Only(l, {"RX"})) |-> Only(l, {"RX"})[i].arg]

\* ------------------------------------------------------------------------
\* C1
\* ------------------------------------------------------------------------

\* C1: while an accepted transfer has no transmission-result response yet,
\* the main thread is never reading or interpreting a command line, and the
\* only bytes taken from the input stream are payload bytes of that transfer
\* (taken by the read loop while fewer than the count have been read).
C1_TransferExcludesCommands ==
  /\ [](inFlight => pc \notin {"await_read_line", "interpret"})
  /\ [][(inFlight /\ Appends({"LINE", "RX"}))
          => /\ pc = "ingest"
             /\ current_tx_total_length < bytes_to_read
             /\ LastEv(log').pfx = "RX"]_vars

\* A transfer that is streaming: one refill done, more to load, the flag
\* clear, and loop() passing the console by.
C1_Witness ==
  /\ inFlight
  /\ pc = "check_console"
  /\ ~console_loop_enable
  /\ ~fifo_empty
  /\ current_tx_remaining_length > 0
  /\ current_tx_remaining_length < current_tx_total_length

\* ------------------------------------------------------------------------
\* C2
\* ------------------------------------------------------------------------

\* The transmission-result response for start status st has been written and
\* command acceptance is enabled again.
ResultReported(st) ==
  /\ console_loop_enable
  /\ ~inFlight
  /\ \E i \in 1..Len(log) : log[i] = TxResponse(st)

\* C2: under LiveSpec's fairness every accepted transfer leads to its
\* transmission-result response and to console_loop_enable being true again,
\* for a successful and for a failed startTransmit alike.
C2_TransferCompletes ==
  /\ inFlight ~> (console_loop_enable /\ ~inFlight)
  /\ \A st \in StartResults :
       (inFlight /\ pc = "loop" /\ startResult = st) ~> ResultReported(st)

\* A transfer whose startTransmit failed has been reported after more than
\* one refill, and the console is enabled again.
C2_Witness ==
  /\ pc = "check_console"
  /\ ResultReported(ERR_PACKET_TOO_LONG)
  /\ Len(Only(log, {"RADIO"})) >= 4

\* ------------------------------------------------------------------------
\* C3
\* ------------------------------------------------------------------------

\* Event r is the transmission-result response that belongs to a
\* startTransmit call that returned st.
IsResultOf(r, st) ==
  IF st = RADIOLIB_ERR_NONE
  THEN r.code = 0 /\ r.msg = "Transmission finished successfully!"
  ELSE r.code = 1 /\ r.msg = "Transmission failed to start, error code:" /\ r.arg = st

\* C3: every transmission-result response follows the one startTransmit call
\* of its transfer and is the success message exactly when that call returned
\* RADIOLIB_ERR_NONE, otherwise the failure message with the code that call
\* returned.
C3_ResultIsStartStatus ==
  \A i \in 1..Len(log) :
    log[i].pfx = "TX" =>
      \E j \in 1..(i - 1) :
        /\ log[j].msg = "startTransmit"
        /\ \A k \in 1..Len(log) : log[k].msg = "startTransmit" => k = j
        /\ log[j].code = startResult
        /\ IsResultOf(log[i], log[j].code)

\* A failure code is reported after refills whose last one reported the
\* packet loaded.
C3_Witness ==
  /\ Len(log) >= 5
  /\ \E i \in 2..Len(log) :
       /\ log[i].pfx = "TX"
       /\ log[i].code = 1
       /\ log[i].arg = ERR_CHIP_NOT_FOUND
       /\ log[i - 1].msg = "fifoAdd"
       /\ log[i - 1].code = 1

\* ------------------------------------------------------------------------
\* C4
\* ------------------------------------------------------------------------

\* C4: interpreting an `m` line whose parsed count is below 1 (zero, a
\* negative number, or text that parses to 0) writes `Invalid parameter`
\* (code 9) and nothing else: no byte is read, startTransmit is not called,
\* console_loop returns with command acceptance still enabled, and the
\* buffer, the lengths, the flags, the start status and the radio
\* configuration are unchanged.
C4_InvalidCountChangesNothing ==
  [][(Interprets /\ IsTransferLine(line) /\ CountOf(line) < 1)
       => /\ log' = Append(log, EvInvalid)
          /\ pc' = "loop"
          /\ UNCHANGED <<console_loop_enable, fifo_empty,
                         transmission_processing_complete, tx_data_buffer,
                         current_tx_total_length, current_tx_remaining_length,
                         radio_start_transmit_status, current_tx_frequency,
                         current_tx_power, display, bytes_to_read, requested, isrAttached>>]_vars

\* An `m` line was rejected after an earlier transfer: that transfer's
\* lengths and payload are still in place and the console stays enabled.
C4_Witness ==
  /\ pc = "loop"
  /\ Len(log) = 2
  /\ LastEv(log) = EvInvalid
  /\ console_loop_enable
  /\ current_tx_total_length = Capacity
  /\ tx_data_buffer[1] = NL
  /\ tx_data_buffer[2] = NUL
  /\ fifo_empty

\* ------------------------------------------------------------------------
\* C5
\* ------------------------------------------------------------------------

WaitingEv(n) == Ev("CONSOLE", 0, "Waiting for bytes", n)
AcceptedEv(n) == Ev("CONSOLE", 0, "Accepted bytes", n)

\* The main thread leaves the payload loop: the Accepted message and
\* radio.startTransmit().
StartsTransmit == pc = "ingest" /\ pc' = "loop"

\* C5: an `m` line whose count exceeds the capacity has the effect of the
\* line `m <capacity>`: the state after the command is the one that count
\* gives (Waiting for <capacity> bytes, a read loop for capacity bytes,
\* nothing else touched), so every later state and output is the same; and
\* when the read loop ends exactly capacity bytes have been taken and
\* accepted and are handed to startTransmit.
C5_OverCapacityIsCapacity ==
  /\ [][(Interprets /\ IsTransferLine(line) /\ CountOf(line) > Capacity)
          => /\ pc' = "ingest"
             /\ bytes_to_read' = Capacity
             /\ log' = Append(log, WaitingEv(Capacity))
             /\ current_tx_total_length' = 0
             /\ line' = <<>>
             /\ UNCHANGED <<console_loop_enable, fifo_empty,
                            transmission_processing_complete, tx_data_buffer,
                            current_tx_remaining_length, radio_start_transmit_status,
                            current_tx_frequency, current_tx_power, display>>]_vars
  /\ [][(StartsTransmit /\ requested > Capacity)
          => /\ current_tx_total_length = Capacity
             /\ Len(Payload(log)) = Capacity
             /\ log'[Len(log) + 1] = AcceptedEv(Capacity)
             /\ log'[Len(log) + 2].msg = "startTransmit"
             /\ log'[Len(log) + 2].arg = Capacity
             /\ current_tx_remaining_length' = Capacity]_vars

\* The read loop of a request above the capacity has filled the buffer.
C5_Witness ==
  /\ pc = "ingest"
  /\ requested > Capacity
  /\ bytes_to_read = Capacity
  /\ current_tx_total_length = Capacity

\* ------------------------------------------------------------------------
\* C6
\* ------------------------------------------------------------------------

\* C6: an `m` line with a count n in 1..capacity starts a read loop for
\* exactly n bytes; the loop stores each byte it takes, whatever its value,
\* at the next index, so the bytes taken so far are the start of the buffer
\* in arrival order; and startTransmit is called with exactly n bytes taken,
\* current_tx_total_length = n and buffer[0..n) equal to those bytes.
C6_IngestsExactlyCount ==
  /\ [][(Interprets /\ IsTransferLine(line) /\ CountOf(line) \in 1..Capacity)
          => /\ pc' = "ingest"
             /\ bytes_to_read' = CountOf(line)
             /\ current_tx_total_length' = 0]_vars
  /\ [](pc = "ingest"
          => /\ current_tx_total_length <= bytes_to_read
             /\ Len(Payload(log)) = current_tx_total_length
             /\ SubSeq(tx_data_buffer, 1, current_tx_total_length) = Payload(log))
  /\ [][(StartsTransmit /\ requested \in 1..Capacity)
          => /\ current_tx_total_length = requested
             /\ Len(Payload(log)) = requested
             /\ SubSeq(tx_data_buffer, 1, requested) = Payload(log)
             /\ log'[Len(log) + 2].msg = "startTransmit"
             /\ log'[Len(log) + 2].arg = requested
             /\ current_tx_total_length' = requested
             /\ tx_data_buffer' = tx_data_buffer]_vars

\* Two bytes were requested; a newline and then a null byte arrived and are
\* in the buffer in that order.
C6_Witness ==
  /\ pc = "ingest"
  /\ requested = 2
  /\ current_tx_total_length = 2
  /\ Payload(log) = <<NL, NUL>>
  /\ tx_data_buffer[1] = NL
  /\ tx_data_buffer[2] = NUL

\* ------------------------------------------------------------------------
\* C7
\* ------------------------------------------------------------------------

\* C7: radio.fifoAdd is called only with a positive remaining length and only
\* for a transfer that has been started and has no result yet: whenever the
\* main thread has passed loop()'s test and is about to call it, and for
\* every call recorded, so a flag set by the interrupt before any transfer or
\* after a transfer's completion starts no refill.
C7_RefillOnlyWhileRemaining ==
  /\ pc \in {"clear_flag", "fifo_add"} => (current_tx_remaining_length > 0 /\ inFlight)
  /\ \A i \in 1..Len(log) :
       log[i].msg = "fifoAdd" =>
         /\ log[i].arg > 0
         /\ \E j \in 1..(i - 1) : log[j].msg = "startTransmit"
         /\ \A j \in 1..(i - 1) : log[j].pfx # "TX"

\* The interrupt set the flag after a transfer had completed and a further
\* command had been handled; loop() tested it and did not refill.
C7_Witness ==
  /\ pc = "check_complete"
  /\ fifo_empty
  /\ ~inFlight
  /\ current_tx_total_length > 0
  /\ current_tx_remaining_length <= 0
  /\ Len(log) = 3
  /\ log[1].pfx = "LINE"
  /\ log[2].pfx = "CONSOLE"
  /\ log[3].pfx = "LOOP"

\* ------------------------------------------------------------------------
\* C8
\* ------------------------------------------------------------------------

\* The interrupt routine runs: the flag becomes set while the main thread
\* stays where it is.
CallbackFires == ~fifo_empty /\ fifo_empty' /\ pc' = pc

\* C8: a run of the interrupt routine, wherever the main thread is, sets
\* fifo_empty and changes nothing else: not the buffer, the lengths, the
\* start status, the completion flag, console_loop_enable, the frequency and
\* power, the display or the output.
C8_CallbackOnlySetsFlag ==
  [][CallbackFires
       => UNCHANGED <<tx_data_buffer, current_tx_total_length,
                      current_tx_remaining_length, radio_start_transmit_status,
                      transmission_processing_complete, console_loop_enable,
                      current_tx_frequency, current_tx_power, display, log,
                      line, bytes_to_read, isrAttached>>]_vars

\* The interrupt ran between loop()'s clearing of the flag and its fifoAdd
\* call, during a transfer.
C8_Witness ==
  /\ pc = "fifo_add"
  /\ fifo_empty
  /\ inFlight
  /\ current_tx_remaining_length = Capacity

\* ------------------------------------------------------------------------
\* C9
\* ------------------------------------------------------------------------

\* The refill that reported the whole packet loaded.
IsCompleteRefill(e) == e.msg = "fifoAdd" /\ e.code = 1

\* C9: in an iteration of loop() the refill test and the refill come first,
\* the completion test follows them, and the console test and console_loop
\* come only after the completion test; so a refill that reports the packet
\* loaded is followed, in the same iteration and before anything else is
\* read or written, by the transmission-result response.
C9_RefillThenCompletionThenConsole ==
  /\ [][/\ pc' = "clear_flag" => pc \in {"loop", "clear_flag"}
        /\ pc' = "fifo_add" => pc \in {"clear_flag", "fifo_add"}
        /\ pc' = "check_complete" => pc \in {"loop", "fifo_add", "check_complete"}
        /\ pc' = "check_console" => pc \in {"check_complete", "check_console"}
        /\ pc' = "await_read_line" => pc \in {"check_console", "await_read_line"}
        /\ pc' = "interpret" => pc \in {"await_read_line", "interpret"}]_vars
  /\ [](\A i \in 1..Len(log) :
          IsCompleteRefill(log[i]) =>
            IF i = Len(log)
            THEN pc = "check_complete" /\ transmission_processing_complete
            ELSE log[i + 1].pfx = "TX")

\* A refill that started in a new iteration reported the packet loaded and
\* the result was written next; the console test is still to come.
C9_Witness ==
  /\ pc = "check_console"
  /\ console_loop_enable
  /\ \E i \in 2..(Len(log) - 1) :
       /\ log[i - 1].pfx = "LOOP"
       /\ IsCompleteRefill(log[i])
       /\ log[i + 1].pfx = "TX"

\* ------------------------------------------------------------------------
\* C10
\* ------------------------------------------------------------------------

\* C10: transmission_processing_complete is true only between the refill
\* that set it and the completion test of the same iteration: it is false
\* when an iteration of loop() starts, while the refill is being prepared,
\* at the console test, and all the time console_loop reads a line,
\* interprets it or reads a payload.
C10_CompleteIsOneShot ==
  transmission_processing_complete => pc = "check_complete"

\* The completion block has run: the flag is clear again, the result is
\* written and the next iteration can take a command.
C10_Witness ==
  /\ pc = "check_console"
  /\ ~transmission_processing_complete
  /\ ~inFlight
  /\ \E i \in 1..Len(log) : log[i].pfx = "TX" /\ log[i].code = 0
  /\ LastEv(log).pfx = "DISPLAY"

\* ------------------------------------------------------------------------
\* C11
\* ------------------------------------------------------------------------

C12_LengthsWithinCapacity ==
  /\ [](/\ 0 <= current_tx_total_length
        /\ current_tx_total_length <= Capacity
        /\ DOMAIN tx_data_buffer = 1..Capacity
        /\ pc = "ingest" => /\ bytes_to_read \in 1..Capacity
                            /\ current_tx_total_length <= bytes_to_read
                            /\ requested >= bytes_to_read)
  /\ [][Appends({"RX"})
          => /\ current_tx_total_length \in 0..(Capacity - 1)
             /\ current_tx_total_length' = current_tx_total_length + 1
             /\ tx_data_buffer' =
                  [tx_data_buffer EXCEPT ![current_tx_total_length + 1] = LastEv(log').arg]]_vars

\* A request far above the capacity has written the last index of the buffer.
C12_Witness ==
  /\ pc = "ingest"
  /\ requested = 22
  /\ current_tx_total_length = Capacity
  /\ tx_data_buffer[Capacity] = NL

\* ------------------------------------------------------------------------
\* C13
\* ------------------------------------------------------------------------

\* The completion block has just run: the result is written and command
\* acceptance is enabled again.
JustReported ==
  /\ pc = "check_console"
  /\ console_loop_enable
  /\ \E i \in 1..Len(log) : log[i].pfx = "TX"

\* C13 as stated: after the transmission-result response and the re-enabling
\* of command acceptance, current_tx_remaining_length = current_tx_total_length.
C13_Original == JustReported => current_tx_remaining_length = current_tx_total_length

\* C13, amended: completion handling does not touch the lengths.  After the
\* response and the re-enabling, current_tx_remaining_length is what the last
\* refill left, at most 0 and below current_tx_total_length; it becomes equal
\* to current_tx_total_length only when the next transfer's read loop has
\* ended, right before that transfer's startTransmit.
C13_CompletionKeepsRemaining ==
  /\ [][(pc = "check_complete" /\ pc' = "check_console")
          => UNCHANGED <<current_tx_remaining_length, current_tx_total_length>>]_vars
  /\ [](JustReported
          => /\ current_tx_remaining_length <= 0
             /\ current_tx_remaining_length < current_tx_total_length)
  /\ [][current_tx_remaining_length' > current_tx_remaining_length
          => /\ StartsTransmit
             /\ current_tx_remaining_length' = current_tx_total_length]_vars

\* A full-capacity transfer has been reported and its remaining length is 0.
C13_Witness ==
  /\ JustReported
  /\ current_tx_total_length = Capacity
  /\ current_tx_remaining_length = 0

\* ------------------------------------------------------------------------
\* C14
\* ------------------------------------------------------------------------

\* C14 as stated: fifo_empty becomes true only in a run of the interrupt
\* routine, which leaves the main thread where it is, and becomes false only
\* in loop()'s `fifo_empty = false`; no step of the main thread sets it.
C14_Original ==
  [][fifo_empty' # fifo_empty
       => IF fifo_empty' THEN UNCHANGED mainVars ELSE pc = "clear_flag"]_vars

\* ------------------------------------------------------------------------
\* C15
\* ------------------------------------------------------------------------

\* A started transfer still has bytes to load.
Streaming == inFlight /\ current_tx_remaining_length > 0

\* loop() passes the refill by while a transfer is streaming: it goes back to
\* waiting for the flag.
GoesBackToWaiting == Streaming /\ pc = "loop" /\ pc' = "check_complete"

\* The refill call begins: `fifo_empty = false` and then radio.fifoAdd.
RefillBegins == pc = "clear_flag" /\ pc' = "fifo_add"

\* C15: loop()'s test and clear of fifo_empty act as one step with respect to
\* the interrupt routine, and no firing is lost.  Between the test and the
\* clear the flag is set, so a firing there changes nothing; a set flag is
\* cleared only by the step that begins a refill call, which the call follows
\* at once; and while a transfer is streaming loop() goes back to waiting
\* only with the flag clear.  Hence after a firing during a streaming
\* transfer (between test and clear, or during a refill call) a refill call
\* begins before the engine waits again.
C15_NoNotificationLost ==
  /\ [](pc = "clear_flag" => fifo_empty /\ Streaming)
  /\ [](pc = "fifo_add" => Streaming)
  /\ [][(Streaming /\ fifo_empty /\ ~fifo_empty') => RefillBegins]_vars
  /\ [][RefillBegins => ~fifo_empty']_vars
  /\ [][GoesBackToWaiting => ~fifo_empty]_vars
  /\ [][(Streaming /\ CallbackFires) => (fifo_empty' /\ Streaming')]_vars

\* The interrupt fired during the second refill call of a transfer: the
\* first call left bytes to load, a firing after it made loop() begin the
\* second, and the flag is set again for a third.
C15_Witness ==
  /\ pc = "fifo_add"
  /\ fifo_empty
  /\ Streaming
  /\ log # <<>>
  /\ \E i \in 1..Len(log) : log[i].msg = "fifoAdd" /\ log[i].code = 0

\* ------------------------------------------------------------------------
\* C16
\* ------------------------------------------------------------------------

\* `line` is a well-formed command with this letter.
IsCommand(l, c) == IF IsMalformed(l) THEN FALSE ELSE Cmd(l) = c

\* The step wrote the failure response and nothing else, and left the
\* frequency, the power and the display as they were.
Rejected(msg) ==
  /\ log' = Append(log, Ev("CONSOLE", 1, msg, 0))
  /\ UNCHANGED <<current_tx_frequency, current_tx_power, display>>

\* The step wrote the code 0 response carrying x and then refreshed the
\* display.
Accepted(msg, x) ==
  log' = log \o <<Ev("CONSOLE", 0, msg, x), EvDisplay(console_loop_enable)>>

\* C16: the frequency and the power change only when the driver accepts.  A
\* rejected f or p writes its code 1 response, leaves current_tx_frequency,
\* current_tx_power and the display unchanged and does not refresh the
\* display; an accepted `f x` (`p x`) writes code 0 and the display then
\* shows frequency x (power x) with the other field as before.  No other
\* step of the program changes either parameter.
C16_ConfigOnlyOnAcceptance ==
  /\ [][(Interprets /\ IsCommand(line, CH_f))
          => LET x == toFloat(Substring2(line))
             IN \/ Rejected("Failed to set frequency")
                \/ /\ Accepted("Frequency set to", x)
                   /\ current_tx_frequency' = x
                   /\ display'.frequency = x
                   /\ display'.power = display.power
                   /\ UNCHANGED current_tx_power]_vars
  /\ [][(Interprets /\ IsCommand(line, CH_p))
          => LET x == toInt(Substring2(line))
             IN \/ Rejected("Failed to set transmit power")
                \/ /\ Accepted("Transmit power set to", x)
                   /\ current_tx_power' = x
                   /\ display'.power = x
                   /\ display'.frequency = display.frequency
                   /\ UNCHANGED current_tx_frequency]_vars
  /\ [][<<current_tx_frequency, current_tx_power>>' # <<current_tx_frequency, current_tx_power>>
          => /\ Interprets
             /\ IsCommand(line, CH_f) \/ IsCommand(line, CH_p)
             /\ LastEv(log').pfx = "DISPLAY"]_vars
  /\ [](pc # "setup"
          => display.frequency = current_tx_frequency /\ display.power = current_tx_power)

\* A power command was rejected after both parameters had been changed from
\* their defaults: the rejection left the changed values in place.
C16_Witness ==
  /\ pc = "loop"
  /\ log # <<>>
  /\ LastEv(log) = Ev("CONSOLE", 1, "Failed to set transmit power", 0)
  /\ current_tx_frequency # TX_FREQ_DEFAULT
  /\ current_tx_power # TX_POWER_DEFAULT
  /\ display.frequency = current_tx_frequency
  /\ display.power = current_tx_power

\* ------------------------------------------------------------------------
\* C17
\* ------------------------------------------------------------------------

\* `line` is malformed, or well-formed with a letter other than f, p and m.
IsUnknownLine(l) ==
  IF Len(l) < 3 THEN TRUE
  ELSE IF l[2] # SP THEN TRUE
  ELSE l[1] \notin {CH_f, CH_p, CH_m}

\* The last line interpreted was answered `Unknown command`.
AfterUnknown == \E i \in 1..Len(log) : log[i] = EvUnknown

\* C17: a line that is shorter than 3, or has no space at index 1, or has a
\* letter other than f, p, m, is answered with exactly CONSOLE:9:Unknown
\* command.  The step calls no driver capability and leaves the frequency,
\* the power, the display, the buffer, both lengths, the start status,
\* fifo_empty, transmission_processing_complete and console_loop_enable
\* unchanged, and the loop() iteration that follows neither refills nor
\* completes anything and calls console_loop() again, which reads a line.
C17_UnknownChangesNothing ==
  /\ [][(Interprets /\ IsUnknownLine(line))
          => /\ log' = Append(log, EvUnknown)
             /\ pc' = "loop"
             /\ UNCHANGED <<current_tx_frequency, current_tx_power, display,
                            tx_data_buffer, current_tx_total_length,
                            current_tx_remaining_length, radio_start_transmit_status,
                            fifo_empty, transmission_processing_complete,
                            console_loop_enable, isrAttached>>]_vars
  /\ [](AfterUnknown
          => /\ pc \in {"loop", "check_complete", "check_console"}
             /\ console_loop_enable
             /\ ~transmission_processing_complete
             /\ ~RefillDue(fifo_empty, current_tx_remaining_length)
             /\ \A i \in 1..Len(log) : log[i].pfx \in {"LINE", "CONSOLE", "LOOP"}
             /\ Len(Only(log, {"CONSOLE"})) = 1)
  /\ [][(AfterUnknown /\ pc = "check_console" /\ pc' # pc)
          => pc' = "await_read_line"]_vars

\* A three-character line was answered Unknown command while fifo_empty was
\* set and the frequency had been changed; the next iteration has reached
\* the console test with both as they were.
C17_Witness ==
  /\ pc = "check_console"
  /\ AfterUnknown
  /\ log[1] = Ev("LINE", 0, "await_read_line", 4)
  /\ fifo_empty
  /\ current_tx_frequency # TX_FREQ_DEFAULT
  /\ display.frequency = current_tx_frequency

\* ------------------------------------------------------------------------
\* C18
\* ------------------------------------------------------------------------

\* console_loop() returns to loop(): from the command switch, or from the
\* payload loop of an accepted transfer.
ConsoleReturns == pc \in {"interpret", "ingest"} /\ pc' = "loop"

\* The lines the call that now returns has written to Serial.
Responses == Only(log', {"CONSOLE", "TX", "INIT"})

\* C18 as stated: every call of console_loop() writes exactly one response.
C18_Original == [][ConsoleReturns => Len(Responses) = 1]_vars

\* C18, amended: every call of console_loop() writes exactly one response,
\* except an accepted transfer, which writes two: `Waiting for <n> bytes`
\* before the payload and `Accepted <n> bytes` after it.  The one response of
\* a line that is malformed or has an unknown letter is Unknown command
\* (code 9), of an `m` with a count below 1 Invalid parameter (code 9), of an
\* f or p the code 0 or the code 1 message of that command.
C18_OneResponseOrTwo ==
  /\ [][(ConsoleReturns /\ pc = "ingest")
          => Responses = <<WaitingEv(current_tx_total_length),
                           AcceptedEv(current_tx_total_length)>>]_vars
  /\ [][(ConsoleReturns /\ pc = "interpret")
          => /\ Len(Responses) = 1
             /\ Responses[1].pfx = "CONSOLE"
             /\ IsUnknownLine(line) => Responses[1] = EvUnknown
             /\ IsCommand(line, CH_m) => Responses[1] = EvInvalid
             /\ IsCommand(line, CH_f)
                  => /\ Responses[1].code \in {0, 1}
                     /\ Responses[1].msg \in {"Frequency set to", "Failed to set frequency"}
             /\ IsCommand(line, CH_p)
                  => /\ Responses[1].code \in {0, 1}
                     /\ Responses[1].msg \in {"Transmit power set to",
                                              "Failed to set transmit power"}]_vars
  /\ [][(pc = "interpret" /\ pc' = "ingest")
          => Only(log', {"CONSOLE", "TX", "INIT"}) = <<WaitingEv(bytes_to_read')>>]_vars

\* A transfer of the full capacity has been accepted: its call has written
\* the Waiting and the Accepted message.
C18_Witness ==
  /\ pc = "loop"
  /\ inFlight
  /\ current_tx_remaining_length = Capacity
  /\ Only(log, {"CONSOLE"}) = <<WaitingEv(Capacity), AcceptedEv(Capacity)>>

\* ------------------------------------------------------------------------
\* C19
\* ------------------------------------------------------------------------

\* `line` is `f x` (`p x`) with x the value an earlier accepted command left
\* in current_tx_frequency (current_tx_power).
RepeatsFrequency ==
  IsCommand(line, CH_f) /\ toFloat(Substring2(line)) = current_tx_frequency
RepeatsPower ==
  IsCommand(line, CH_p) /\ toInt(Substring2(line)) = current_tx_power

\* The command is answered with a code other than 0: a rejected f or p, an
\* `m` with a count below 1, a malformed line or an unknown letter.
AnsweredWithFailure ==
  /\ Interprets
  /\ pc' = "loop"
  /\ LastEv(log').pfx = "CONSOLE"
  /\ LastEv(log').code # 0

\* C19: f and p are idempotent.  What an accepted `f x` (`p x`) leaves in
\* the frequency, the power and the display depends on x and on the other
\* parameter only, not on the value replaced.  Once it has stored x,
\* commands answered with a failure code and the loop() iterations between
\* commands leave all three as they are, and a further `f x` (`p x`) that
\* the driver accepts is answered with code 0 and leaves all three equal to
\* what they were after the first.
C19_ConfigCommandsIdempotent ==
  /\ [][(Interprets /\ IsCommand(line, CH_f) /\ LastEv(log').code = 0)
          => LET x == toFloat(Substring2(line))
             IN configVars' = <<x, current_tx_power,
                                display_status(x, current_tx_power, TRUE)>>]_vars
  /\ [][(Interprets /\ IsCommand(line, CH_p) /\ LastEv(log').code = 0)
          => LET x == toInt(Substring2(line))
             IN configVars' = <<current_tx_frequency, x,
                                display_status(current_tx_frequency, x, TRUE)>>]_vars
  /\ [][(Interprets /\ RepeatsFrequency)
          => /\ UNCHANGED configVars
             /\ \/ Accepted("Frequency set to", current_tx_frequency)
                \/ Rejected("Failed to set frequency")]_vars
  /\ [][(Interprets /\ RepeatsPower)
          => /\ UNCHANGED configVars
             /\ \/ Accepted("Transmit power set to", current_tx_power)
                \/ Rejected("Failed to set transmit power")]_vars
  /\ [][AnsweredWithFailure => UNCHANGED configVars]_vars
  /\ [][(~inFlight /\ ~inFlight' /\ pc \notin {"setup", "interpret"})
          => UNCHANGED configVars]_vars

\* A second `p 1` is about to be interpreted: the power is 1 from an earlier
\* accepted `p 1`, and the command in between was a rejected f, which left
\* the frequency at its default.
C19_Witness ==
  /\ pc = "interpret"
  /\ RepeatsPower
  /\ current_tx_power = 1
  /\ current_tx_frequency = TX_FREQ_DEFAULT
  /\ display = display_status(TX_FREQ_DEFAULT, 1, TRUE)

\* ------------------------------------------------------------------------
\* C20
\* ------------------------------------------------------------------------

\* The events of the log other than the line read and the loop() marks.
Observed ==
  Only(log, {"CONSOLE", "RX", "RADIO", "TX", "INIT", "ENABLE", "DISPLAY"})

\* The place of an event in the course of a transfer; 0 for an event that has
\* no place in it (the response of another command).
Phase(e) ==
  CASE e.pfx = "CONSOLE" /\ e.msg = "Waiting for bytes" -> 1
    [] e.pfx = "RX" -> 2
    [] e.pfx = "CONSOLE" /\ e.msg = "Accepted bytes" -> 3
    [] e.pfx = "RADIO" /\ e.msg = "startTransmit" -> 4
    [] e.pfx = "DISPLAY" /\ e.msg = "Transmitting..." -> 5
    [] e.pfx = "RADIO" /\ e.msg = "fifoAdd" -> 6
    [] e.pfx = "TX" -> 7
    [] e.pfx = "RADIO" /\ e.msg = "standby" -> 8
    [] e.pfx = "INIT" -> 9
    [] e.pfx = "ENABLE" -> 10
    [] e.pfx = "DISPLAY" /\ e.msg = "Standby" -> 11
    [] OTHER -> 0

\* The places that may follow place k directly.
Follows(k) ==
  CASE k = 2 -> {2, 3}
    [] k = 5 -> {6, 7}
    [] k = 6 -> {6, 7}
    [] k \in {1, 3, 4, 7, 8, 9, 10} -> {k + 1}
    [] OTHER -> {}

\* The log holds a transfer's Waiting message.
HasTransfer == \E i \in 1..Len(log) : log[i].msg = "Waiting for bytes"

\* C20: the events of an accepted transfer occur in this order, each once
\* unless said otherwise, with no response of another command among them:
\* Waiting for <n> bytes; n payload bytes; Accepted <n> bytes;
\* radio.startTransmit with length n; the display showing Transmitting...;
\* the radio.fifoAdd calls; the transmission-result response;
\* radio.standby; the standby message; console_loop_enable = true; the
\* display showing Standby.  No radio.fifoAdd comes before startTransmit, and
\* console_loop_enable is false from startTransmit until it is set after
\* radio.standby.
C20_TransferEventOrder ==
  /\ [](inFlight => HasTransfer)
  /\ [](HasTransfer
          => LET t == Observed
                 n == t[1].arg
             IN /\ t[1] = WaitingEv(n)
                /\ n \in 1..Capacity
                /\ \A i \in 1..(Len(t) - 1) : Phase(t[i + 1]) \in Follows(Phase(t[i]))
                /\ Len(Only(log, {"RX"})) <= n
                /\ \A i \in 1..Len(t) :
                     /\ Phase(t[i]) = 3 => t[i] = AcceptedEv(n) /\ i = n + 2
                     /\ Phase(t[i]) = 4 => t[i].arg = n
                /\ (\E i \in 1..Len(t) : Phase(t[i]) = 4) /\ Phase(LastEv(t)) < 10
                     => ~console_loop_enable
                /\ Phase(LastEv(t)) = 11
                     => console_loop_enable /\ ~display.busy /\ ~inFlight)

\* A transfer of the full capacity has run its whole course, with two
\* radio.fifoAdd calls and a failed start reported.
C20_Witness ==
  /\ pc = "check_console"
  /\ HasTransfer
  /\ Observed[1] = WaitingEv(Capacity)
  /\ Phase(LastEv(Observed)) = 11
  /\ Len(Only(log, {"RADIO"})) = 4
  /\ \E i \in 1..Len(log) : log[i].pfx = "TX" /\ log[i].code = 1

\* ------------------------------------------------------------------------
\* C21
\* ------------------------------------------------------------------------

\* setup() has called panic().
InitFailed == pc \in {"panic", "halted"}

EvHalted == Ev("INIT", 1, "System halted", 0)

\* C21: when radio.beginFSK or radio.fixedPacketLengthMode fails, setup()
\* calls panic() and the program stays there for good.  From then on the
\* only thing the main thread does is write `System halted` once; the
\* interrupt routine, if it was attached, can still set fifo_empty, but
\* nothing reads the flag: no line is read, no response is written, neither
\* radio.startTransmit nor radio.fifoAdd is called, and no variable other
\* than fifo_empty changes.  panic() is entered only from setup(), and every
\* failed initialization enters it.
C21_InitFailureIsTerminal ==
  /\ [][InitFailed => InitFailed']_vars
  /\ [][(pc = "panic" /\ pc' # pc)
          => /\ pc' = "halted"
             /\ log' = Append(log, EvHalted)
             /\ UNCHANGED <<isrAttached, engineVars, configVars, line,
                            bytes_to_read, requested>>]_vars
  /\ [][pc = "halted" => UNCHANGED mainVars]_vars
  /\ [](InitFailed
          => /\ \A i \in 1..Len(log) : log[i].pfx = "INIT"
             /\ line = <<>>
             /\ ~inFlight
             /\ ~transmission_processing_complete
             /\ current_tx_total_length = 0
             /\ current_tx_remaining_length = 0)
  /\ [][(~InitFailed /\ InitFailed')
          => pc = "setup" /\ pc' = "panic" /\ LastEv(log').code = 1]_vars
  /\ [][(pc = "setup" /\ pc' # pc /\ LastEv(log').code # 0) => pc' = "panic"]_vars

\* fixedPacketLengthMode failed after the interrupt routine had been
\* attached; the routine has since set fifo_empty, and the program is halted
\* with the flag set and nothing but its three INIT lines written.
C21_Witness ==
  /\ pc = "halted"
  /\ isrAttached
  /\ fifo_empty
  /\ Len(log) = 3
  /\ log[2].msg = "Failed to set variable packet length mode, code"
  /\ log[3] = EvHalted

\* ------------------------------------------------------------------------
\* C22
\* ------------------------------------------------------------------------

\* How many events of the log satisfy the test: transmission-result
\* responses, radio.standby calls, radio.startTransmit calls.
ResultCount(l) == Cardinality({i \in 1..Len(l) : l[i].pfx = "TX"})
StandbyCount(l) == Cardinality({i \in 1..Len(l) : l[i].msg = "standby"})
StartCount(l) == Cardinality({i \in 1..Len(l) : l[i].msg = "startTransmit"})

\* The events the step has added to the log.
Added ==
  IF Len(log') > Len(log) THEN SubSeq(log', Len(log) + 1, Len(log')) ELSE <<>>

\* C22: transmission-result responses and accepted transfers correspond one
\* to one.  A transfer ends only in the step that writes its one result and
\* calls radio.standby once, and a result is written only in such a step;
\* since the last command was read there is one result and one standby call
\* exactly when a transfer was started and has ended, and none otherwise.
\* While no transfer is in flight no step writes a result or calls
\* radio.standby or radio.fifoAdd, whether or not the interrupt routine has
\* set fifo_empty.  Under LiveSpec's fairness every accepted transfer gets
\* its result.
C22_OneResultPerTransfer ==
  /\ [][(inFlight /\ ~inFlight')
          => /\ ResultCount(Added) = 1
             /\ StandbyCount(Added) = 1]_vars
  /\ [][(ResultCount(Added) > 0 \/ StandbyCount(Added) > 0)
          => /\ inFlight /\ ~inFlight'
             /\ pc = "check_complete"
             /\ StartCount(log) = 1]_vars
  /\ [][~inFlight
          => \A i \in 1..Len(Added) :
               /\ Added[i].pfx # "TX"
               /\ Added[i].msg \notin {"standby", "fifoAdd", "startTransmit"}]_vars
  /\ [](/\ StartCount(log) <= 1
        /\ ResultCount(log) = StandbyCount(log)
        /\ ResultCount(log) = (IF StartCount(log) = 1 /\ ~inFlight THEN 1 ELSE 0))
  /\ inFlight ~> (~inFlight /\ ResultCount(log) = 1 /\ StandbyCount(log) = 1)

\* After a transfer whose start had failed, a line was answered Unknown
\* command; the interrupt routine has set fifo_empty, and the iteration of
\* loop() that followed has passed the refill test and the completion test
\* without a result or a standby call.
C22_Witness ==
  /\ pc = "check_console"
  /\ ~inFlight
  /\ fifo_empty
  /\ radio_start_transmit_status # RADIOLIB_ERR_NONE
  /\ current_tx_total_length = Capacity
  /\ Len(log) = 3
  /\ log[2] = EvUnknown
  /\ log[3].pfx = "LOOP"
  /\ ResultCount(log) = 0

====
